---------------------------- MODULE Spec2Model ----------------------------
(***************************************************************************)
(* Model of the gender text transformer (src/app.py).                      *)
(*                                                                         *)
(* Two parts are modelled:                                                 *)
(*   - the lexical transformer transform_text, a pure function over        *)
(*     strings, with the regular-expression substitutions it performs;     *)
(*   - the PDF pipeline transform_pdf, a sequential program that drives    *)
(*     the document engine (search, redact, apply, insert, save).          *)
(*                                                                         *)
(* A string is a sequence of one-character strings: <<"h","e">> is "he".   *)
(***************************************************************************)
EXTENDS Integers, Sequences, FiniteSets, TLC

(***************************************************************************)
(* State                                                                   *)
(***************************************************************************)
VARIABLES
  arg_text,       \* transform_text: the text argument
  arg_direction,  \* the direction argument: 'm_to_f' or 'f_to_m'
  result,         \* transform_text: the value returned
  tpc,            \* transform_text: "call" before it runs, "returned" after
  doc,            \* transform_pdf: the pages of the document
  pc,             \* transform_pdf: the place reached in the code
  page_no,        \* transform_pdf: the page of the loop `for page in doc`
  unique_replacements,  \* transform_pdf: the replacements of the page
  r_index,        \* transform_pdf: the index of the loop over them
  stats,          \* transform_pdf: the statistics
  calls,          \* the calls made to the document engine, in order
  failures        \* the number of calls that the engine has failed


(***************************************************************************)
(* Characters and the str methods used by the code.                        *)
(***************************************************************************)
LowerLetters ==
  <<"a","b","c","d","e","f","g","h","i","j","k","l","m",
    "n","o","p","q","r","s","t","u","v","w","x","y","z">>

UpperLetters ==
  <<"A","B","C","D","E","F","G","H","I","J","K","L","M",
    "N","O","P","Q","R","S","T","U","V","W","X","Y","Z">>

LowerSet == {LowerLetters[i] : i \in 1..Len(LowerLetters)}

UpperSet == {UpperLetters[i] : i \in 1..Len(UpperLetters)}

AsciiLetters == LowerSet \cup UpperSet

Digits == {"0","1","2","3","4","5","6","7","8","9"}

Whitespace == {" ", "\t", "\n"}

Punctuation == {".", ",", "_", "-", "'", "\"", ":"}

Chars == AsciiLetters \cup Digits \cup Whitespace \cup Punctuation

LowerOf ==
  [c \in Chars |->
     IF c \in UpperSet
       THEN LowerLetters[CHOOSE i \in 1..Len(UpperLetters) : UpperLetters[i] = c]
       ELSE c]

UpperOf ==
  [c \in Chars |->
     IF c \in LowerSet
       THEN UpperLetters[CHOOSE i \in 1..Len(LowerLetters) : LowerLetters[i] = c]
       ELSE c]

\* str.lower()
str_lower(s) == [i \in 1..Len(s) |-> LowerOf[s[i]]]

\* str.upper()
str_upper(s) == [i \in 1..Len(s) |-> UpperOf[s[i]]]

\* str.capitalize(): first character upper-cased, the rest lower-cased
str_capitalize(s) ==
  [i \in 1..Len(s) |-> IF i = 1 THEN UpperOf[s[i]] ELSE LowerOf[s[i]]]

\* str.isupper(): no lower-case character and at least one upper-case one
str_isupper(s) ==
  /\ \A i \in 1..Len(s) : s[i] \notin LowerSet
  /\ \E i \in 1..Len(s) : s[i] \in UpperSet

\* str.isalnum() of one character
char_isalnum(c) == c \in AsciiLetters \cup Digits

\* str.strip(): leading and trailing whitespace removed
RECURSIVE str_lstrip(_)
str_lstrip(s) ==
  IF s # <<>> /\ Head(s) \in Whitespace THEN str_lstrip(Tail(s)) ELSE s

RECURSIVE str_rstrip(_)
str_rstrip(s) ==
  IF s # <<>> /\ s[Len(s)] \in Whitespace
    THEN str_rstrip(SubSeq(s, 1, Len(s) - 1))
    ELSE s

str_strip(s) == str_rstrip(str_lstrip(s))

(***************************************************************************)
(* The word table.                                                         *)
(***************************************************************************)
GENDER_PAIRS ==
  <<
    <<<<"h","e">>, <<"s","h","e">>>>,
    <<<<"h","i","m">>, <<"h","e","r">>>>,
    <<<<"h","i","m","s","e","l","f">>, <<"h","e","r","s","e","l","f">>>>,
    <<<<"m","a","n">>, <<"w","o","m","a","n">>>>,
    <<<<"m","e","n">>, <<"w","o","m","e","n">>>>,
    <<<<"m","a","l","e">>, <<"f","e","m","a","l","e">>>>,
    <<<<"m","a","l","e","s">>, <<"f","e","m","a","l","e","s">>>>,
    <<<<"b","o","y">>, <<"g","i","r","l">>>>,
    <<<<"b","o","y","s">>, <<"g","i","r","l","s">>>>,
    <<<<"f","a","t","h","e","r">>, <<"m","o","t","h","e","r">>>>,
    <<<<"f","a","t","h","e","r","s">>, <<"m","o","t","h","e","r","s">>>>,
    <<<<"d","a","d">>, <<"m","o","m">>>>,
    <<<<"d","a","d","d","y">>, <<"m","o","m","m","y">>>>,
    <<<<"s","o","n">>, <<"d","a","u","g","h","t","e","r">>>>,
    <<<<"s","o","n","s">>, <<"d","a","u","g","h","t","e","r","s">>>>,
    <<<<"b","r","o","t","h","e","r">>, <<"s","i","s","t","e","r">>>>,
    <<<<"b","r","o","t","h","e","r","s">>, <<"s","i","s","t","e","r","s">>>>,
    <<<<"u","n","c","l","e">>, <<"a","u","n","t">>>>,
    <<<<"u","n","c","l","e","s">>, <<"a","u","n","t","s">>>>,
    <<<<"n","e","p","h","e","w">>, <<"n","i","e","c","e">>>>,
    <<<<"n","e","p","h","e","w","s">>, <<"n","i","e","c","e","s">>>>,
    <<<<"h","u","s","b","a","n","d">>, <<"w","i","f","e">>>>,
    <<<<"h","u","s","b","a","n","d","s">>, <<"w","i","v","e","s">>>>,
    <<<<"g","r","a","n","d","f","a","t","h","e","r">>, <<"g","r","a","n","d","m","o","t","h","e","r">>>>,
    <<<<"g","r","a","n","d","f","a","t","h","e","r","s">>, <<"g","r","a","n","d","m","o","t","h","e","r","s">>>>,
    <<<<"g","r","a","n","d","p","a">>, <<"g","r","a","n","d","m","a">>>>,
    <<<<"g","r","a","n","d","s","o","n">>, <<"g","r","a","n","d","d","a","u","g","h","t","e","r">>>>,
    <<<<"s","t","e","p","f","a","t","h","e","r">>, <<"s","t","e","p","m","o","t","h","e","r">>>>,
    <<<<"s","t","e","p","s","o","n">>, <<"s","t","e","p","d","a","u","g","h","t","e","r">>>>,
    <<<<"s","t","e","p","b","r","o","t","h","e","r">>, <<"s","t","e","p","s","i","s","t","e","r">>>>,
    <<<<"g","o","d","f","a","t","h","e","r">>, <<"g","o","d","m","o","t","h","e","r">>>>,
    <<<<"g","o","d","s","o","n">>, <<"g","o","d","d","a","u","g","h","t","e","r">>>>,
    <<<<"m","r">>, <<"m","s">>>>,
    <<<<"s","i","r">>, <<"m","a","d","a","m">>>>,
    <<<<"g","e","n","t","l","e","m","a","n">>, <<"l","a","d","y">>>>,
    <<<<"g","e","n","t","l","e","m","e","n">>, <<"l","a","d","i","e","s">>>>,
    <<<<"l","o","r","d">>, <<"l","a","d","y">>>>,
    <<<<"l","o","r","d","s">>, <<"l","a","d","i","e","s">>>>,
    <<<<"k","i","n","g">>, <<"q","u","e","e","n">>>>,
    <<<<"k","i","n","g","s">>, <<"q","u","e","e","n","s">>>>,
    <<<<"p","r","i","n","c","e">>, <<"p","r","i","n","c","e","s","s">>>>,
    <<<<"p","r","i","n","c","e","s">>, <<"p","r","i","n","c","e","s","s","e","s">>>>,
    <<<<"d","u","k","e">>, <<"d","u","c","h","e","s","s">>>>,
    <<<<"b","a","r","o","n">>, <<"b","a","r","o","n","e","s","s">>>>,
    <<<<"c","o","u","n","t">>, <<"c","o","u","n","t","e","s","s">>>>,
    <<<<"e","m","p","e","r","o","r">>, <<"e","m","p","r","e","s","s">>>>,
    <<<<"a","c","t","o","r">>, <<"a","c","t","r","e","s","s">>>>,
    <<<<"w","a","i","t","e","r">>, <<"w","a","i","t","r","e","s","s">>>>,
    <<<<"s","t","e","w","a","r","d">>, <<"s","t","e","w","a","r","d","e","s","s">>>>,
    <<<<"h","o","s","t">>, <<"h","o","s","t","e","s","s">>>>,
    <<<<"h","e","r","o">>, <<"h","e","r","o","i","n","e">>>>,
    <<<<"h","e","r","o","e","s">>, <<"h","e","r","o","i","n","e","s">>>>,
    <<<<"g","o","d">>, <<"g","o","d","d","e","s","s">>>>,
    <<<<"g","o","d","s">>, <<"g","o","d","d","e","s","s","e","s">>>>,
    <<<<"p","r","i","e","s","t">>, <<"p","r","i","e","s","t","e","s","s">>>>,
    <<<<"m","o","n","k">>, <<"n","u","n">>>>,
    <<<<"m","o","n","k","s">>, <<"n","u","n","s">>>>,
    <<<<"w","i","z","a","r","d">>, <<"w","i","t","c","h">>>>,
    <<<<"w","i","z","a","r","d","s">>, <<"w","i","t","c","h","e","s">>>>,
    <<<<"w","i","d","o","w","e","r">>, <<"w","i","d","o","w">>>>,
    <<<<"w","i","d","o","w","e","r","s">>, <<"w","i","d","o","w","s">>>>,
    <<<<"b","a","c","h","e","l","o","r">>, <<"b","a","c","h","e","l","o","r","e","t","t","e">>>>,
    <<<<"g","r","o","o","m">>, <<"b","r","i","d","e">>>>,
    <<<<"s","a","l","e","s","m","a","n">>, <<"s","a","l","e","s","w","o","m","a","n">>>>,
    <<<<"s","a","l","e","s","m","e","n">>, <<"s","a","l","e","s","w","o","m","e","n">>>>,
    <<<<"b","u","s","i","n","e","s","s","m","a","n">>, <<"b","u","s","i","n","e","s","s","w","o","m","a","n">>>>,
    <<<<"b","u","s","i","n","e","s","s","m","e","n">>, <<"b","u","s","i","n","e","s","s","w","o","m","e","n">>>>,
    <<<<"c","o","n","g","r","e","s","s","m","a","n">>, <<"c","o","n","g","r","e","s","s","w","o","m","a","n">>>>,
    <<<<"c","o","n","g","r","e","s","s","m","e","n">>, <<"c","o","n","g","r","e","s","s","w","o","m","e","n">>>>,
    <<<<"p","o","l","i","c","e","m","a","n">>, <<"p","o","l","i","c","e","w","o","m","a","n">>>>,
    <<<<"p","o","l","i","c","e","m","e","n">>, <<"p","o","l","i","c","e","w","o","m","e","n">>>>,
    <<<<"f","i","r","e","m","a","n">>, <<"f","i","r","e","w","o","m","a","n">>>>,
    <<<<"f","i","r","e","m","e","n">>, <<"f","i","r","e","w","o","m","e","n">>>>,
    <<<<"s","p","o","k","e","s","m","a","n">>, <<"s","p","o","k","e","s","w","o","m","a","n">>>>,
    <<<<"s","p","o","k","e","s","m","e","n">>, <<"s","p","o","k","e","s","w","o","m","e","n">>>>,
    <<<<"c","h","a","i","r","m","a","n">>, <<"c","h","a","i","r","w","o","m","a","n">>>>,
    <<<<"c","h","a","i","r","m","e","n">>, <<"c","h","a","i","r","w","o","m","e","n">>>>,
    <<<<"b","o","y","f","r","i","e","n","d">>, <<"g","i","r","l","f","r","i","e","n","d">>>>,
    <<<<"b","o","y","f","r","i","e","n","d","s">>, <<"g","i","r","l","f","r","i","e","n","d","s">>>>,
    <<<<"m","a","n","h","o","o","d">>, <<"w","o","m","a","n","h","o","o","d">>>>,
    <<<<"m","a","n","k","i","n","d">>, <<"w","o","m","a","n","k","i","n","d">>>>,
    <<<<"m","a","s","c","u","l","i","n","e">>, <<"f","e","m","i","n","i","n","e">>>>,
    <<<<"m","a","s","c","u","l","i","n","i","t","y">>, <<"f","e","m","i","n","i","n","i","t","y">>>>,
    <<<<"l","a","d">>, <<"l","a","s","s">>>>,
    <<<<"l","a","d","s">>, <<"l","a","s","s","e","s">>>>,
    <<<<"g","u","y">>, <<"g","a","l">>>>,
    <<<<"g","u","y","s">>, <<"g","a","l","s">>>>
  >>

his == <<"h","i","s">>

hers == <<"h","e","r","s">>

her == <<"h","e","r">>

him == <<"h","i","m">>

Directions == {"m_to_f", "f_to_m"}

\* preserve_case without its capitalized branch
preserve_case_no_capitalize(original, replacement) ==
  IF str_isupper(original) THEN str_upper(replacement)
  ELSE str_lower(replacement)

\* preserve_case(original, replacement)
preserve_case(original, replacement) ==
  IF str_isupper(original) THEN str_upper(replacement)
  ELSE IF original[1] \in UpperSet THEN str_capitalize(replacement)
  ELSE str_lower(replacement)

\* the dict built by {k: v for ...} from a sequence of (k, v) items, kept as
\* the sequence of its items in insertion order: a key stands where it was
\* first inserted and holds the value that was assigned to it last
dict_from(items) ==
  LET n == Len(items)
      firsts == SelectSeq([i \in 1..n |-> i],
                          LAMBDA i : \A j \in 1..(i - 1) : items[j][1] # items[i][1])
      last(k) == CHOOSE j \in 1..n :
                   /\ items[j][1] = k
                   /\ \A l \in (j + 1)..n : items[l][1] # k
  IN  [p \in 1..Len(firsts) |->
         <<items[firsts[p]][1], items[last(items[firsts[p]][1])][2]>>]

MAPPINGS_M_TO_F ==
  dict_from([i \in 1..Len(GENDER_PAIRS) |->
               <<str_lower(GENDER_PAIRS[i][1]), str_lower(GENDER_PAIRS[i][2])>>])

MAPPINGS_F_TO_M ==
  dict_from([i \in 1..Len(GENDER_PAIRS) |->
               <<str_lower(GENDER_PAIRS[i][2]), str_lower(GENDER_PAIRS[i][1])>>])

\* build_mappings with the two directions exchanged
build_mappings_exchanged(direction) ==
  IF direction = "m_to_f" THEN MAPPINGS_F_TO_M ELSE MAPPINGS_M_TO_F

\* build_mappings(direction): the items of the dict, in order
build_mappings(direction) ==
  IF direction = "m_to_f" THEN MAPPINGS_M_TO_F ELSE MAPPINGS_F_TO_M

(***************************************************************************)
(* Regular expressions: \bword\b and \bword\b(?=\s+[a-zA-Z]) under         *)
(* re.IGNORECASE, substituted by re.sub.                                   *)
(***************************************************************************)
\* \w : an alphanumeric character or the underscore
IsWordChar(c) == char_isalnum(c) \/ c = "_"

\* a pattern written without \b
WordBoundary_absent(s, i) == TRUE

\* \b at the gap before position i (1..Len(s)+1)
WordBoundary(s, i) ==
  (i > 1 /\ IsWordChar(s[i - 1])) # (i <= Len(s) /\ IsWordChar(s[i]))

\* the literal word, case-insensitively, at position i
LiteralAt(s, i, word) ==
  /\ i + Len(word) - 1 <= Len(s)
  /\ \A k \in 1..Len(word) : LowerOf[s[i + k - 1]] = LowerOf[word[k]]

RECURSIVE SkipSpaces(_, _)
SkipSpaces(s, j) ==
  IF j <= Len(s) /\ s[j] \in Whitespace THEN SkipSpaces(s, j + 1) ELSE j

\* (?=\s+[a-zA-Z]) at position j
Lookahead(s, j) ==
  LET k == SkipSpaces(s, j)
  IN  k > j /\ k <= Len(s) /\ s[k] \in AsciiLetters

\* the pattern matches at position i
MatchAt(s, i, word, lookahead) ==
  /\ LiteralAt(s, i, word)
  /\ WordBoundary(s, i)
  /\ WordBoundary(s, i + Len(word))
  /\ lookahead => Lookahead(s, i + Len(word))

\* re.sub(pattern, lambda m: preserve_case(m.group(), target), s): the
\* leftmost non-overlapping matches of s are replaced, scanning from i
RECURSIVE re_sub_from(_, _, _, _, _)
re_sub_from(word, target, lookahead, s, i) ==
  IF i > Len(s) THEN <<>>
  ELSE IF MatchAt(s, i, word, lookahead)
    THEN preserve_case(SubSeq(s, i, i + Len(word) - 1), target)
           \o re_sub_from(word, target, lookahead, s, i + Len(word))
    ELSE <<s[i]>> \o re_sub_from(word, target, lookahead, s, i + 1)

re_sub(word, target, lookahead, s) == re_sub_from(word, target, lookahead, s, 1)

(***************************************************************************)
(* transform_text                                                          *)
(***************************************************************************)
\* the possessive rules with the two substitutions of "his" in the other order
possessive_pass_reordered(text, direction) ==
  IF direction = "m_to_f"
    THEN re_sub(his, her, TRUE, re_sub(his, hers, FALSE, text))
    ELSE re_sub(hers, his, FALSE, text)

\* the possessive rules applied before the loop
possessive_pass(text, direction) ==
  IF direction = "m_to_f"
    THEN re_sub(his, hers, FALSE, re_sub(his, her, TRUE, text))
    ELSE re_sub(hers, his, FALSE, text)

\* the loop body without the branch that treats 'her'
loop_body_without_her(text, source, target, direction) ==
  IF source \in {his, hers} THEN text
  ELSE re_sub(source, target, FALSE, text)

\* one iteration of the loop over mappings.items()
loop_body(text, source, target, direction) ==
  IF source \in {his, hers} THEN text
  ELSE IF source = her /\ direction = "f_to_m"
    THEN re_sub(her, him, FALSE, re_sub(her, his, TRUE, text))
  ELSE re_sub(source, target, FALSE, text)

\* for source, target in mappings.items(): the iterations lo..hi in order;
\* the text left by the first half is computed before the second half runs
RECURSIVE mappings_loop(_, _, _, _, _)
mappings_loop(text, mappings, lo, hi, direction) ==
  IF lo > hi THEN text
  ELSE IF lo = hi
    THEN loop_body(text, mappings[lo][1], mappings[lo][2], direction)
  ELSE LET mid == (lo + hi) \div 2
           first == mappings_loop(text, mappings, lo, mid, direction)
       IN  IF Len(first) >= 0
             THEN mappings_loop(first, mappings, mid + 1, hi, direction)
             ELSE first

transform_text(text, direction) ==
  IF text = <<>> \/ str_strip(text) = <<>> THEN text
  ELSE mappings_loop(possessive_pass(text, direction),
                     build_mappings(direction), 1,
                     Len(build_mappings(direction)), direction)

(***************************************************************************)
(* Inputs of transform_text: every form of the table and the possessives   *)
(* alone, and a few words between a prefix and a suffix.                   *)
(***************************************************************************)
MaxSpaces == 2

Casings == {"lower", "capitalized", "upper", "tail_upper", "ends_upper"}

ApplyCase(c, w) ==
  CASE c = "lower" -> str_lower(w)
    [] c = "capitalized" -> str_capitalize(w)
    [] c = "upper" -> str_upper(w)
    [] c = "tail_upper" ->
         [i \in 1..Len(w) |-> IF i = 1 THEN LowerOf[w[i]] ELSE UpperOf[w[i]]]
    [] c = "ends_upper" ->
         [i \in 1..Len(w) |->
            IF i = 1 \/ i = Len(w) THEN UpperOf[w[i]] ELSE LowerOf[w[i]]]

MasculineForms == {GENDER_PAIRS[i][1] : i \in 1..Len(GENDER_PAIRS)}

FeminineForms == {GENDER_PAIRS[i][2] : i \in 1..Len(GENDER_PAIRS)}

StandaloneWords == MasculineForms \cup FeminineForms \cup {his, hers}

ContextWords ==
  {his, hers, her, <<"h","e">>, <<"s","h","e">>, <<"l","a","d","y">>}

Spaces(n) == [i \in 1..n |-> " "]

Prefixes ==
  {<<>>, <<"c">>, <<"_">>, <<"1">>, <<" ">>, <<".">>,
   <<"i","t"," ","i","s"," ">>, <<"h","i","s"," ">>, <<"h","e","r"," ">>}

Suffixes ==
  {<<>>, <<"e","s","e">>, <<"_">>, <<"1">>, <<".">>, <<".","b">>,
   <<"\t","b">>, <<" ","H","I","S">>}
    \cup {Spaces(n) : n \in 1..MaxSpaces}
    \cup {Spaces(n) \o t : n \in 1..MaxSpaces,
                           t \in {<<"b","o","o","k">>, <<"B">>, <<"1">>,
                                  <<"_","x">>, <<".">>}}

TextInputs ==
  {<<>>, <<" ">>, <<" ", "\t">>}
    \cup {ApplyCase(c, w) : c \in Casings, w \in StandaloneWords}
    \cup {p \o ApplyCase(c, w) \o s :
            p \in Prefixes, c \in Casings, w \in ContextWords, s \in Suffixes}

(***************************************************************************)
(* PDF processing: helpers                                                 *)
(***************************************************************************)
\* str.find(sub): the 0-based index of the first occurrence, -1 when absent
str_find(s, sub) ==
  LET at(i) == /\ i + Len(sub) <= Len(s)
               /\ \A k \in 1..Len(sub) : s[i + k] = sub[k]
      found == {i \in 0..Len(s) : at(i)}
  IN  IF found = {} THEN -1
      ELSE CHOOSE i \in found : \A j \in found : i <= j

\* str.replace(old, new), from position i on (old is not empty)
RECURSIVE str_replace_from(_, _, _, _)
str_replace_from(s, old, new, i) ==
  IF i > Len(s) THEN <<>>
  ELSE IF i + Len(old) - 1 <= Len(s) /\ SubSeq(s, i, i + Len(old) - 1) = old
    THEN new \o str_replace_from(s, old, new, i + Len(old))
    ELSE <<s[i]>> \o str_replace_from(s, old, new, i + 1)

str_replace(s, old, new) == str_replace_from(s, old, new, 1)

\* the items of the dict `replacements` of normalize_text, in order; a
\* character outside ASCII is written as its code point
NORMALIZE_REPLACEMENTS ==
  << << <<":"," ","\"","'","\"",","," ">>, <<"'">> >>,
     << <<"\"">>, <<"\"">> >>,
     << <<"U+2013">>, <<"-">> >>,
     << <<"U+2014">>, <<"-">> >>,
     << <<"U+2026">>, <<".",".",".">> >>,
     << <<"U+FB01">>, <<"f","i">> >>,
     << <<"U+FB02">>, <<"f","l">> >>,
     << <<"U+FB00">>, <<"f","f">> >>,
     << <<"U+FB03">>, <<"f","f","i">> >>,
     << <<"U+FB04">>, <<"f","f","l">> >>,
     << <<"U+2032">>, <<"'">> >>,
     << <<"U+2033">>, <<"\"">> >>,
     << <<"U+00A0">>, <<" ">> >>,
     << <<"U+2019">>, <<"'">> >>,
     << <<"U+2018">>, <<"'">> >>,
     << <<"U+201C">>, <<"\"">> >>,
     << <<"U+201D">>, <<"\"">> >> >>

RECURSIVE normalize_from(_, _)
normalize_from(s, n) ==
  IF n > Len(NORMALIZE_REPLACEMENTS) THEN s
  ELSE normalize_from(str_replace(s, NORMALIZE_REPLACEMENTS[n][1],
                                  NORMALIZE_REPLACEMENTS[n][2]), n + 1)

normalize_text(s) == normalize_from(s, 1)

\* font names
Arial == <<"A","r","i","a","l">>

Helvetica == <<"H","e","l","v","e","t","i","c","a">>

Times == <<"T","i","m","e","s">>

TimesNewRoman == <<"T","i","m","e","s"," ","N","e","w"," ","R","o","m","a","n">>

Courier == <<"C","o","u","r","i","e","r">>

CourierNew == <<"C","o","u","r","i","e","r","N","e","w">>

TimesBold == <<"T","i","m","e","s","-","B","o","l","d">>

FONT_FALLBACKS ==
  << <<Arial, "helv">>, <<Helvetica, "helv">>,
     <<Times, "tiro">>, <<TimesNewRoman, "tiro">>,
     <<Courier, "cour">>, <<CourierNew, "cour">> >>

find_matching_font(original_font) ==
  LET hits == {i \in 1..Len(FONT_FALLBACKS) :
                 str_find(str_lower(original_font),
                          str_lower(FONT_FALLBACKS[i][1])) # -1}
  IN  IF hits = {} THEN "helv"
      ELSE FONT_FALLBACKS[CHOOSE i \in hits : \A j \in hits : i <= j][2]

build_word_list(direction) ==
  LET mappings == build_mappings(direction)
      words == SelectSeq(mappings, LAMBDA it : it[1] \notin {his, hers, her})
  IN  IF direction = "m_to_f"
        THEN words \o << <<his, her>> >>
        ELSE words \o << <<hers, his>>, <<her, his>> >>

(***************************************************************************)
(* The document engine.  A page is one line of text in one span; lengths   *)
(* are in hundredths of a point, a glyph is Glyph.width wide for each ten   *)
(* points of font size and the line stands at Glyph.top.                   *)
(***************************************************************************)
Glyph == [width |-> 500, top |-> 10000]

Rect(x0, y0, x1, y1) == [x0 |-> x0, y0 |-> y0, x1 |-> x1, y1 |-> y1]

Point(x, y) == [x |-> x, y |-> y]

\* the width of a glyph of the page
GlyphWidth(page) == (Glyph.width * page.size) \div 1000

\* the rectangle of the characters i .. i+n-1 of the page
HitRect(page, i, n) ==
  Rect((i - 1) * GlyphWidth(page), Glyph.top,
       (i - 1 + n) * GlyphWidth(page), Glyph.top + page.size)

\* the only span of the page
SpanOf(page) ==
  [bbox |-> HitRect(page, 1, Len(page.text)),
   font |-> page.font, size |-> page.size, color |-> page.color,
   origin |-> Point(0, Glyph.top + page.size)]

\* page.search_for(needle): the start positions of the hits, in page order;
\* the search of the engine ignores case
search_for(page, needle) ==
  SelectSeq([i \in 1..Len(page.text) |-> i],
            LAMBDA i : LiteralAt(page.text, i, needle))

\* page.get_text("text", clip=clip): the characters lying inside the clip,
\* followed by the end of the line
get_text_clip(page, clip) ==
  LET inside == {i \in 1..Len(page.text) :
                   /\ (i - 1) * GlyphWidth(page) >= clip.x0
                   /\ i * GlyphWidth(page) <= clip.x1}
  IN  IF inside = {} THEN <<>>
      ELSE SubSeq(page.text,
                  CHOOSE i \in inside : \A j \in inside : i <= j,
                  CHOOSE i \in inside : \A j \in inside : i >= j) \o <<"\n">>

\* fitz.Rect.contains(point)
rect_contains(r, p) ==
  r.x0 <= p.x /\ p.x <= r.x1 /\ r.y0 <= p.y /\ p.y <= r.y1

get_font_info_at_point(page, point) ==
  IF Len(page.text) > 0 /\ rect_contains(SpanOf(page).bbox, point)
    THEN [font |-> SpanOf(page).font, size |-> SpanOf(page).size,
          color |-> SpanOf(page).color, origin |-> SpanOf(page).origin]
    ELSE [font |-> Helvetica, size |-> 1100, color |-> 0, origin |-> point]

(***************************************************************************)
(* transform_pdf: the search for the words of one page                     *)
(***************************************************************************)
\* the three case variants searched for one (source_word, target_word)
variants(source_word, target_word) ==
  << <<str_lower(source_word), str_lower(target_word)>>,
     <<str_capitalize(source_word), str_capitalize(target_word)>>,
     <<str_upper(source_word), str_upper(target_word)>> >>

\* the word boundary check on a search hit: TRUE when the hit is kept
is_whole_word(page, rect, source_variant) ==
  LET expanded == Rect(rect.x0 - 1000, rect.y0, rect.x1 + 1000, rect.y1)
      surrounding_text == get_text_clip(page, expanded)
      idx == str_find(str_lower(surrounding_text), str_lower(source_variant))
      end_idx == idx + Len(source_variant)
  IN  IF idx # -1
        THEN /\ ~(idx > 0 /\ char_isalnum(surrounding_text[idx]))
             /\ ~(end_idx < Len(surrounding_text)
                    /\ char_isalnum(surrounding_text[end_idx + 1]))
        ELSE TRUE

\* the replacement recorded for a hit that passed the check
replacement_at(page, rect, source_variant, target_variant) ==
  LET center_point == Point(rect.x0 + 100, (rect.y0 + rect.y1) \div 2)
  IN  [rect |-> rect,
       original |-> source_variant,
       replacement |-> normalize_text(target_variant),
       font_info |-> get_font_info_at_point(page, center_point)]

\* the list `replacements` of a page: for each word of words_to_find, for
\* each of its variants, for each hit, in that order
find_replacements(page, words_to_find) ==
  LET n == Len(page.text)
      word(t) == (t - 1) \div (3 * n) + 1
      var(t) == (((t - 1) \div n) % 3) + 1
      pos(t) == ((t - 1) % n) + 1
      sv(t) == variants(words_to_find[word(t)][1], words_to_find[word(t)][2])[var(t)][1]
      tv(t) == variants(words_to_find[word(t)][1], words_to_find[word(t)][2])[var(t)][2]
      kept(t) == /\ LiteralAt(page.text, pos(t), sv(t))
                 /\ is_whole_word(page, HitRect(page, pos(t), Len(sv(t))), sv(t))
      hits == SelectSeq([t \in 1..(Len(words_to_find) * 3 * n) |-> t], kept)
  IN  [h \in 1..Len(hits) |->
         replacement_at(page, HitRect(page, pos(hits[h]), Len(sv(hits[h]))),
                        sv(hits[h]), tv(hits[h]))]

\* round(x, 1) of a length in hundredths of a point
round1(x) == ((x + 5) \div 10) * 10

rect_key(r) == <<round1(r.x0), round1(r.y0), round1(r.x1), round1(r.y1)>>

\* a de-duplication that keeps the last replacement of every rectangle
remove_duplicates_keeping_last(replacements) ==
  LET last(i) == \A j \in (i + 1)..Len(replacements) :
                   rect_key(replacements[j].rect) # rect_key(replacements[i].rect)
      keep == SelectSeq([i \in 1..Len(replacements) |-> i], last)
  IN  [u \in 1..Len(keep) |-> replacements[keep[u]]]

\* the list `unique_replacements`: the first replacement of every rectangle
remove_duplicates(replacements) ==
  LET first(i) == \A j \in 1..(i - 1) :
                    rect_key(replacements[j].rect) # rect_key(replacements[i].rect)
      keep == SelectSeq([i \in 1..Len(replacements) |-> i], first)
  IN  [u \in 1..Len(keep) |-> replacements[keep[u]]]

\* the rectangle erased for a replacement
redact_rect(r) ==
  LET v_padding == (r.font_info.size * 3) \div 10
      h_padding == 200
  IN  Rect(r.rect.x0 - h_padding, r.rect.y0 - v_padding,
           r.rect.x1 + h_padding, r.rect.y1 + v_padding)

\* the (red, green, blue) of a packed color; each channel is left as the
\* integer that the code divides by 255.0
color_of(color_int) ==
  <<(color_int \div 65536) % 256, (color_int \div 256) % 256, color_int % 256>>

insertion_point(r) ==
  IF "origin" \in DOMAIN r.font_info
    THEN Point(r.rect.x0, r.font_info.origin.y)
    ELSE Point(r.rect.x0, r.rect.y0 + ((r.rect.y1 - r.rect.y0) * 8) \div 10)

\* the color with which insert_text draws when none is given
DefaultColor == <<0, 0, 0>>

(***************************************************************************)
(* Documents given to transform_pdf                                        *)
(***************************************************************************)
MaxPages == 2

MaxFailures == 2

PageTexts ==
  {<<"c","h","e","e","s","e">>,
   <<"h","e">>,
   <<"H","i","s"," ","s","o","n">>,
   <<"s","h","e"," ","h","e","r">>,
   <<"s","h","e"," ","h","e">>}

Styles ==
  {[font |-> Helvetica, size |-> 1100, color |-> 0],
   [font |-> TimesBold, size |-> 1200, color |-> 16711680],
   [font |-> Courier, size |-> 400, color |-> 0]}

Documents ==
  UNION {{[i \in 1..n |->
             [text |-> texts[i], font |-> st.font, size |-> st.size,
              color |-> st.color]] :
            texts \in [1..n -> PageTexts], st \in Styles} : n \in 1..MaxPages}

vars ==
  <<arg_text, arg_direction, result, tpc, doc, pc, page_no,
    unique_replacements, r_index, stats, calls, failures>>

text_vars == <<arg_text, arg_direction, result, tpc>>

pdf_vars ==
  <<doc, pc, page_no, unique_replacements, r_index, stats, calls, failures>>

NoStats == [pages_processed |-> 0, spans_modified |-> 0, words_changed |-> <<>>]

\* transform_text is about to be called on one of the inputs
Init ==
  /\ arg_text \in TextInputs
  /\ arg_direction \in Directions
  /\ result = <<>>
  /\ tpc = "call"
  /\ doc = <<>>
  /\ pc = "idle"
  /\ page_no = 0
  /\ unique_replacements = <<>>
  /\ r_index = 0
  /\ stats = NoStats
  /\ calls = <<>>
  /\ failures = 0

TransformText ==
  /\ tpc = "call"
  /\ result' = transform_text(arg_text, arg_direction)
  /\ tpc' = "returned"
  /\ UNCHANGED <<arg_text, arg_direction>>
  /\ UNCHANGED pdf_vars

Next == TransformText

Spec == Init /\ [][Next]_vars

(***************************************************************************)
(* transform_pdf as a sequential program                                   *)
(***************************************************************************)
\* transform_pdf is about to be called on one of the documents
PdfInit ==
  /\ arg_text = <<>>
  /\ arg_direction \in Directions
  /\ result = <<>>
  /\ tpc = "idle"
  /\ doc \in Documents
  /\ pc = "open"
  /\ page_no = 0
  /\ unique_replacements = <<>>
  /\ r_index = 0
  /\ stats = NoStats
  /\ calls = <<>>
  /\ failures = 0

\* fitz.open, the initial stats, build_word_list; the page loop starts
Open ==
  /\ pc = "open"
  /\ stats' = NoStats
  /\ page_no' = 1
  /\ pc' = IF Len(doc) >= 1 THEN "search" ELSE "save"
  /\ UNCHANGED <<doc, unique_replacements, r_index, calls, failures>>
  /\ UNCHANGED text_vars

\* one page: the search for every word and variant, and the de-duplication
SearchPage ==
  /\ pc = "search"
  /\ unique_replacements' =
       remove_duplicates(
         find_replacements(doc[page_no], build_word_list(arg_direction)))
  /\ r_index' = 1
  /\ pc' = "redact"
  /\ UNCHANGED <<doc, page_no, stats, calls, failures>>
  /\ UNCHANGED text_vars

\* a loop that draws each replacement as soon as its redaction is registered
AddRedactAnnot_drawing ==
  /\ pc = "redact"
  /\ r_index <= Len(unique_replacements)
  /\ calls' = calls \o
                << [op |-> "add_redact_annot", page |-> page_no,
                    rect |-> redact_rect(unique_replacements[r_index])],
                   [op |-> "insert_text", page |-> page_no,
                    attempt |-> "first",
                    point |-> insertion_point(unique_replacements[r_index]),
                    text |-> unique_replacements[r_index].replacement,
                    fontname |->
                      find_matching_font(unique_replacements[r_index].font_info.font),
                    fontsize |-> unique_replacements[r_index].font_info.size,
                    color |-> color_of(unique_replacements[r_index].font_info.color),
                    ok |-> TRUE] >>
  /\ stats' = [stats EXCEPT !.spans_modified = @ + 1]
  /\ r_index' = r_index + 1
  /\ UNCHANGED <<doc, pc, page_no, unique_replacements, failures>>
  /\ UNCHANGED text_vars

\* one iteration of the loop that registers the redactions
AddRedactAnnot ==
  /\ pc = "redact"
  /\ r_index <= Len(unique_replacements)
  /\ calls' = Append(calls,
                [op |-> "add_redact_annot", page |-> page_no,
                 rect |-> redact_rect(unique_replacements[r_index])])
  /\ stats' = [stats EXCEPT !.spans_modified = @ + 1]
  /\ r_index' = r_index + 1
  /\ UNCHANGED <<doc, pc, page_no, unique_replacements, failures>>
  /\ UNCHANGED text_vars

\* page.apply_redactions, after the loop
ApplyRedactions ==
  /\ pc = "redact"
  /\ r_index > Len(unique_replacements)
  /\ calls' = Append(calls, [op |-> "apply_redactions", page |-> page_no])
  /\ r_index' = 1
  /\ pc' = "insert"
  /\ UNCHANGED <<doc, page_no, unique_replacements, stats, failures>>
  /\ UNCHANGED text_vars

\* one iteration of the loop that inserts the replacements: the first
\* page.insert_text, which the engine carries out or fails
InsertText ==
  /\ pc = "insert"
  /\ r_index <= Len(unique_replacements)
  /\ \E ok \in BOOLEAN :
       LET r == unique_replacements[r_index]
       IN  /\ ~ok => failures < MaxFailures
           /\ calls' = Append(calls,
                         [op |-> "insert_text", page |-> page_no,
                          attempt |-> "first",
                          point |-> insertion_point(r),
                          text |-> r.replacement,
                          fontname |-> find_matching_font(r.font_info.font),
                          fontsize |-> r.font_info.size,
                          color |-> color_of(r.font_info.color),
                          ok |-> ok])
           /\ failures' = IF ok THEN failures ELSE failures + 1
           /\ stats' = IF ok
                         THEN [stats EXCEPT !.words_changed =
                                 Append(@, <<r.original, r.replacement>>)]
                         ELSE stats
           /\ r_index' = IF ok THEN r_index + 1 ELSE r_index
           /\ pc' = IF ok THEN "insert" ELSE "fallback"
  /\ UNCHANGED <<doc, page_no, unique_replacements>>
  /\ UNCHANGED text_vars

\* a fallback without its own try: its failure leaves transform_pdf
InsertFallback_raising ==
  /\ pc = "fallback"
  /\ \E ok \in BOOLEAN :
       LET r == unique_replacements[r_index]
       IN  /\ ~ok => failures < MaxFailures
           /\ calls' = Append(calls,
                         [op |-> "insert_text", page |-> page_no,
                          attempt |-> "fallback",
                          point |-> insertion_point(r),
                          text |-> r.replacement,
                          fontname |-> "helv",
                          fontsize |-> r.font_info.size,
                          color |-> DefaultColor,
                          ok |-> ok])
           /\ failures' = IF ok THEN failures ELSE failures + 1
           /\ r_index' = IF ok THEN r_index + 1 ELSE r_index
           /\ pc' = IF ok THEN "insert" ELSE "raised"
  /\ UNCHANGED <<doc, page_no, unique_replacements, stats>>
  /\ UNCHANGED text_vars

\* the except branch: the second page.insert_text; its failure is passed over
InsertFallback ==
  /\ pc = "fallback"
  /\ \E ok \in BOOLEAN :
       LET r == unique_replacements[r_index]
       IN  /\ ~ok => failures < MaxFailures
           /\ calls' = Append(calls,
                         [op |-> "insert_text", page |-> page_no,
                          attempt |-> "fallback",
                          point |-> insertion_point(r),
                          text |-> r.replacement,
                          fontname |-> "helv",
                          fontsize |-> r.font_info.size,
                          color |-> DefaultColor,
                          ok |-> ok])
           /\ failures' = IF ok THEN failures ELSE failures + 1
  /\ r_index' = r_index + 1
  /\ pc' = "insert"
  /\ UNCHANGED <<doc, page_no, unique_replacements, stats>>
  /\ UNCHANGED text_vars

\* the end of the body of the page loop
EndPage ==
  /\ pc = "insert"
  /\ r_index > Len(unique_replacements)
  /\ stats' = [stats EXCEPT !.pages_processed = @ + 1]
  /\ page_no' = page_no + 1
  /\ pc' = IF page_no + 1 <= Len(doc) THEN "search" ELSE "save"
  /\ UNCHANGED <<doc, unique_replacements, r_index, calls, failures>>
  /\ UNCHANGED text_vars

\* doc.save, doc.close, return stats
Save ==
  /\ pc = "save"
  /\ calls' = Append(calls, [op |-> "save", page |-> 0])
  /\ pc' = "done"
  /\ UNCHANGED <<doc, page_no, unique_replacements, r_index, stats, failures>>
  /\ UNCHANGED text_vars

PdfNext ==
  \/ Open
  \/ SearchPage
  \/ AddRedactAnnot
  \/ ApplyRedactions
  \/ InsertText
  \/ InsertFallback
  \/ EndPage
  \/ Save

PdfSpec == PdfInit /\ [][PdfNext]_vars

(***************************************************************************)
(* Vocabulary of the properties                                            *)
(***************************************************************************)
\* the maximal runs of s, alternately of characters that satisfy W and of
\* characters that do not, in order
Segments(s, W(_)) ==
  LET starts == SelectSeq([i \in 1..Len(s) |-> i],
                          LAMBDA i : i = 1 \/ W(s[i]) # W(s[i - 1]))
  IN  [n \in 1..Len(starts) |->
         SubSeq(s, starts[n],
                IF n < Len(starts) THEN starts[n + 1] - 1 ELSE Len(s))]

Alphanumeric(c) == c \in AsciiLetters \cup Digits

AlphanumericOrUnderscore(c) == Alphanumeric(c) \/ c = "_"

\* the words that a direction rewrites
SourceWords(d) ==
  IF d = "m_to_f" THEN MasculineForms \cup {his}
  ELSE FeminineForms \cup {hers}

AllUpper(w) == \A i \in 1..Len(w) : w[i] \in UpperSet

AllLower(w) == \A i \in 1..Len(w) : w[i] \in LowerSet

\* the run n of segs is followed by whitespace and then a word that starts
\* with a letter
FollowedByWord(segs, n) ==
  /\ n + 2 <= Len(segs)
  /\ \A i \in 1..Len(segs[n + 1]) : segs[n + 1][i] \in Whitespace
  /\ segs[n + 2][1] \in AsciiLetters

TableCasings == {"lower", "capitalized", "upper"}

(***************************************************************************)
(* Properties of transform_text (specification Spec)                       *)
(***************************************************************************)
\* C1: for every pair (m, f) of GENDER_PAIRS, transform_text with direction
\* m_to_f on the text made of m alone returns f, in lower-case, capitalized
\* and upper-case spelling alike.
C1_MasculineToFeminine ==
  \A i \in 1..Len(GENDER_PAIRS) : \A c \in TableCasings :
    (/\ tpc = "returned"
     /\ arg_direction = "m_to_f"
     /\ arg_text = ApplyCase(c, GENDER_PAIRS[i][1]))
      => result = ApplyCase(c, GENDER_PAIRS[i][2])

C1_Witness ==
  /\ tpc = "returned"
  /\ arg_direction = "m_to_f"
  /\ arg_text = <<"L","O","R","D","S">>
  /\ result = <<"L","A","D","I","E","S">>

\* C2: for every pair (m, f) of GENDER_PAIRS, transform_text with direction
\* f_to_m on the text made of f alone returns m.
C2_FeminineToMasculine ==
  \A i \in 1..Len(GENDER_PAIRS) :
    (/\ tpc = "returned"
     /\ arg_direction = "f_to_m"
     /\ arg_text = GENDER_PAIRS[i][2])
      => result = GENDER_PAIRS[i][1]

\* what transform_text did to the runs of its argument, the runs being cut
\* where W changes: the text keeps its runs, a word run that is a source
\* word of the direction is replaced, every other run is returned as it was
ReplacesExactlyWholeWords(W(_)) ==
  tpc = "returned" =>
    LET a == Segments(arg_text, W)
        b == Segments(result, W)
    IN  /\ Len(a) = Len(b)
        /\ \A n \in 1..Len(a) :
             IF W(a[n][1]) /\ str_lower(a[n]) \in SourceWords(arg_direction)
               THEN b[n] # a[n]
               ELSE b[n] = a[n]

\* C3 as stated: a source word is replaced exactly when it is neither
\* preceded nor followed by an alphanumeric character.
C3_AlphanumericBoundary == ReplacesExactlyWholeWords(Alphanumeric)

\* C3 amended: a source word is replaced exactly when it is neither preceded
\* nor followed by an alphanumeric character or an underscore.
C3_WordCharacterBoundary == ReplacesExactlyWholeWords(AlphanumericOrUnderscore)

\* "his" is replaced, "he" before an underscore is not
C3_Witness ==
  /\ tpc = "returned"
  /\ arg_direction = "m_to_f"
  /\ arg_text = <<"h","i","s"," ","h","e","_">>
  /\ result = <<"h","e","r"," ","h","e","_">>

\* C4: every substitution keeps the casing pattern of the token it replaces:
\* an upper-case token gives an upper-case target, otherwise a token with an
\* upper-case first character gives a capitalized target, otherwise the
\* target is lower-case.
C4_CasePreserved ==
  tpc = "returned" =>
    LET a == Segments(arg_text, AlphanumericOrUnderscore)
        b == Segments(result, AlphanumericOrUnderscore)
    IN  \A n \in 1..Len(a) :
          (n <= Len(b) /\ b[n] # a[n]) =>
            IF AllUpper(a[n]) THEN AllUpper(b[n])
            ELSE IF a[n][1] \in UpperSet
              THEN b[n][1] \in UpperSet /\ AllLower(Tail(b[n]))
            ELSE AllLower(b[n])

\* a lower-case, a mixed-case and an upper-case token in one text
C4_Witness ==
  /\ tpc = "returned"
  /\ arg_direction = "m_to_f"
  /\ arg_text = <<"h","i","s"," ","H","i","S"," ","H","I","S">>
  /\ result = <<"h","e","r"," ","H","e","r"," ","H","E","R","S">>

PageCalls == {i \in 1..Len(calls) : calls[i].op # "save"}

Erasures == {"add_redact_annot", "apply_redactions"}

CallsOn(p, ops) ==
  {i \in 1..Len(calls) : calls[i].page = p /\ calls[i].op \in ops}

FirstAttempts(p) ==
  {i \in CallsOn(p, {"insert_text"}) : calls[i].attempt = "first"}

\* C7: within a page every redaction is registered and the redactions are
\* applied before the first replacement text of the page is drawn, and the
\* pages are processed in document order: no call on a page follows a call
\* on a later page.
C7_EraseBeforeDrawInPageOrder ==
  /\ \A i \in PageCalls : \A j \in PageCalls :
       i < j =>
         /\ calls[i].page <= calls[j].page
         /\ ~(/\ calls[i].page = calls[j].page
              /\ calls[i].op = "insert_text"
              /\ calls[j].op \in Erasures)
  /\ \A i \in PageCalls :
       calls[i].op = "insert_text" =>
         \E j \in 1..(i - 1) :
           calls[j].op = "apply_redactions" /\ calls[j].page = calls[i].page

C7_Witness ==
  /\ pc = "done"
  /\ Len(doc) = 2
  /\ Cardinality(CallsOn(1, {"add_redact_annot"})) = 2
  /\ Cardinality(CallsOn(1, {"insert_text"})) >= 2
  /\ CallsOn(2, {"insert_text"}) # {}

\* C8: a page on which no word needs replacing is left untouched: no
\* redaction is registered on it, apply_redactions is not called on it and
\* no text is inserted on it.
C8_UnmodifiedPageUntouched ==
  (pc \in {"redact", "insert", "fallback"} /\ unique_replacements = <<>>)
    => CallsOn(page_no, Erasures \cup {"insert_text"}) = {}

\* C9: a replacement that cannot be drawn, at the first attempt or at both,
\* never aborts the page or the document.  After a failed first insert_text
\* the fallback insert_text of the same replacement is the next call; the
\* run is always at a place of the code from which it goes on (a page to
\* search, a replacement to erase or draw, the end of a loop) until it has
\* returned; and at the return the document is saved, every page is
\* counted, every page had its redactions applied and every replacement of
\* every page, drawn or not, had its insert_text and is counted in
\* spans_modified.
C9_DrawFailureAbortsNothing ==
  /\ \A i \in 1..Len(calls) :
       (calls[i].op = "insert_text" /\ calls[i].attempt = "first"
          /\ ~calls[i].ok) =>
         IF i = Len(calls) THEN pc = "fallback"
         ELSE /\ calls[i + 1].op = "insert_text"
              /\ calls[i + 1].attempt = "fallback"
              /\ calls[i + 1].page = calls[i].page
              /\ calls[i + 1].text = calls[i].text
  /\ pc \in {"open", "search", "redact", "insert", "fallback", "save", "done"}
  /\ pc = "search" => page_no \in 1..Len(doc)
  /\ pc \in {"redact", "insert"} =>
       r_index \in 1..(Len(unique_replacements) + 1)
  /\ pc = "fallback" => r_index \in 1..Len(unique_replacements)
  /\ pc = "done" =>
       /\ calls[Len(calls)].op = "save"
       /\ stats.pages_processed = Len(doc)
       /\ \A p \in 1..Len(doc) :
            /\ Cardinality(CallsOn(p, {"apply_redactions"})) = 1
            /\ Cardinality(FirstAttempts(p))
                 = Cardinality(CallsOn(p, {"add_redact_annot"}))
       /\ stats.spans_modified
            = Cardinality({i \in 1..Len(calls) :
                             /\ calls[i].op = "insert_text"
                             /\ calls[i].attempt = "first"})

\* both attempts for the first replacement of page 1 failed, and the second
\* replacement of the page and a replacement of page 2 were still drawn
C9_Witness ==
  /\ pc = "done"
  /\ Len(doc) = 2
  /\ \E i \in CallsOn(1, {"insert_text"}) :
       /\ calls[i].attempt = "first" /\ ~calls[i].ok
       /\ calls[i + 1].attempt = "fallback" /\ ~calls[i + 1].ok
       /\ \E j \in CallsOn(1, {"insert_text"}) : j > i + 1 /\ calls[j].ok
  /\ \E j \in CallsOn(2, {"insert_text"}) : calls[j].ok
  /\ stats.spans_modified = 3

\* C10: the fallback insert_text draws the text of the first attempt at the
\* same point, with the default font, the same font size and the same color.
C10_FallbackSameSizeAndColor ==
  \A i \in 1..Len(calls) :
    (calls[i].op = "insert_text" /\ calls[i].attempt = "fallback") =>
      /\ i > 1
      /\ calls[i - 1].op = "insert_text"
      /\ calls[i - 1].attempt = "first"
      /\ calls[i].text = calls[i - 1].text
      /\ calls[i].point = calls[i - 1].point
      /\ calls[i].fontname = "helv"
      /\ calls[i].fontsize = calls[i - 1].fontsize
      /\ calls[i].color = calls[i - 1].color

\* the positions in s at which the runs of Segments(s, W) start
SegmentStarts(s, W(_)) ==
  SelectSeq([i \in 1..Len(s) |-> i],
            LAMBDA i : i = 1 \/ W(s[i]) # W(s[i - 1]))

\* the pages before page n whose run of text the lexical transformer changes
\* (a page holds one run)
PagesChangedBefore(n) ==
  {p \in 1..(n - 1) :
     transform_text(doc[p].text, arg_direction) # doc[p].text}

\* C11: each page processed adds 1 to pages_processed and adds to
\* spans_modified the number of text runs of the page that the
\* transformation changes; at the return pages_processed is the number of
\* pages; both counters are non-negative and never decrease.
C11_StatsCountPagesAndRuns ==
  /\ [](/\ stats.pages_processed >= 0
        /\ stats.spans_modified >= 0
        /\ pc \in {"search", "save", "done"} =>
             /\ stats.pages_processed = page_no - 1
             /\ stats.spans_modified = Cardinality(PagesChangedBefore(page_no))
        /\ pc = "done" => stats.pages_processed = Len(doc))
  /\ [][/\ stats'.pages_processed >= stats.pages_processed
        /\ stats'.spans_modified >= stats.spans_modified]_vars

\* C12: the text drawn for a replaced word is the word that transform_text
\* returns at that place of the run, for the same direction.
C12_DrawsLexicalTransform ==
  \A i \in 1..Len(calls) :
    calls[i].op = "insert_text" =>
      LET page == doc[calls[i].page]
          at == (calls[i].point.x \div GlyphWidth(page)) + 1
          starts == SegmentStarts(page.text, AlphanumericOrUnderscore)
          b == Segments(transform_text(page.text, arg_direction),
                        AlphanumericOrUnderscore)
      IN  \E n \in 1..Len(starts) :
            starts[n] = at /\ n <= Len(b) /\ calls[i].text = b[n]

\* the n characters of text from position i on are not adjoined by an
\* alphanumeric character
HitIsWholeWord(text, i, n) ==
  /\ i = 1 \/ ~Alphanumeric(text[i - 1])
  /\ i + n > Len(text) \/ ~Alphanumeric(text[i + n])

\* C13: for every hit of the page search for a source word, a replacement
\* is recorded at the rectangle of the hit if and only if the hit itself is
\* neither preceded nor followed by an alphanumeric character.
C13_CheckDecidesOnTheHit ==
  pc \in {"redact", "insert", "fallback"} =>
    LET page == doc[page_no]
        words == build_word_list(arg_direction)
    IN  \A w \in 1..Len(words) : \A i \in 1..Len(page.text) :
          LiteralAt(page.text, i, words[w][1]) =>
            ((\E u \in 1..Len(unique_replacements) :
                unique_replacements[u].rect
                  = HitRect(page, i, Len(words[w][1])))
               <=> HitIsWholeWord(page.text, i, Len(words[w][1])))

\* C14: the replacements kept for a page have pairwise different rectangles
\* (rounded to one decimal), each is the first one found for its rectangle
\* in word-list and variant order and no rectangle found is dropped; the
\* page gets as many redactions as insert attempts, which is the amount
\* added to spans_modified.
C14_EachRegionOnce ==
  /\ (pc = "redact" /\ r_index = 1) =>
       LET found == find_replacements(doc[page_no],
                                      build_word_list(arg_direction))
       IN  /\ \A u \in 1..Len(unique_replacements) :
                 \E j \in 1..Len(found) :
                   /\ found[j] = unique_replacements[u]
                   /\ \A l \in 1..(j - 1) :
                        rect_key(found[l].rect) # rect_key(found[j].rect)
           /\ \A j \in 1..Len(found) :
                 \E u \in 1..Len(unique_replacements) :
                   rect_key(unique_replacements[u].rect)
                     = rect_key(found[j].rect)
  /\ pc \in {"redact", "insert", "fallback"} =>
       \A u \in 1..Len(unique_replacements) :
         \A v \in 1..Len(unique_replacements) :
           u # v => rect_key(unique_replacements[u].rect)
                      # rect_key(unique_replacements[v].rect)
  /\ pc \in {"insert", "fallback"} =>
       Cardinality(CallsOn(page_no, {"add_redact_annot"}))
         = Len(unique_replacements)
  /\ pc \in {"search", "save", "done"} =>
       \A p \in 1..(page_no - 1) :
         Cardinality(CallsOn(p, {"add_redact_annot"}))
           = Cardinality(FirstAttempts(p))
  /\ stats.spans_modified
       = Cardinality({i \in 1..Len(calls) : calls[i].op = "add_redact_annot"})

\* the two words of a page were found three times each, once per case
\* variant, kept once each, erased and drawn
C14_Witness ==
  /\ pc = "insert"
  /\ r_index > Len(unique_replacements)
  /\ Len(unique_replacements) = 2
  /\ Len(find_replacements(doc[page_no], build_word_list(arg_direction))) = 6
  /\ Cardinality(CallsOn(page_no, {"add_redact_annot"})) = 2
  /\ Cardinality(FirstAttempts(page_no)) = 2

=============================================================================
